---- MODULE Spec2Model ----
(***************************************************************************)
(* A model of the read-through / write-through cache repository of         *)
(* src/main.go (UserRepo over a mutex-guarded map "db", with a sync.Map or *)
(* an RWMutex-guarded map as cache) and of the load generator RunScenario. *)
(* Every goroutine is a process with a program counter; one action is one  *)
(* atomic step of the code (a lock operation, one map access, a branch).   *)
(*                                                                         *)
(* Four specifications share the actions of the repository:                *)
(*   Spec      clients call Get and Store concurrently;                    *)
(*   SeqSpec   the same calls, one at a time, beside a reference map and a *)
(*             twin repository built with the other strategy flag;         *)
(*   InitSpec  clients also call Init, concurrently and repeatedly;        *)
(*   ScenSpec  RunScenario: the workers of the load generator, and main.   *)
(* ScenFairSpec is ScenSpec under fair scheduling, for termination.        *)
(***************************************************************************)
EXTENDS Integers, Sequences, FiniteSets, TLC

\* ------------------------------------------------------------------ bounds
NumClients == 2       \* goroutines that call the repository directly
MaxKey == 1           \* the clients' keys are 0..MaxKey
MaxCalls == 4         \* calls issued in one behaviour of Spec and of SeqSpec
MaxInitCalls == 3     \* calls issued in one behaviour of InitSpec
MaxConcurrency == 3   \* scale.concurrency is 1..MaxConcurrency
MaxTotalOps == 6      \* scale.totalOps is 0..MaxTotalOps

\* ------------------------------------------------------------------- state
VARIABLES
  u,        \* the UserRepo: isCacheSM, db, cacheSM, cacheRWM, dbMutex, rwm, o
  pc,       \* per goroutine: where it is in the code
  op,       \* per goroutine: the call it is in, or has last returned from
  id,       \* per goroutine: the id argument of that call
  user,     \* per goroutine: the user argument / local / returned record
  ok,       \* per goroutine: the ok local / returned found flag
  log,      \* per goroutine: the trace lines its call has logged so far
  calls,    \* clients: the number of calls issued so far
  expect,   \* clients: per goroutine, the record its last undisturbed Store wrote
  started,  \* clients: the keys for which some Store has started
  stored,   \* clients: keys for which a Store had returned at the latest call
  after,    \* clients: per goroutine, whether its Get started after a Store
            \*          for its key had returned
  written,  \* clients: the <<key, record>> pairs of the Store calls started
  ref,      \* SeqSpec: the reference map, key -> record of the latest Store
  twin,     \* SeqSpec: a UserRepo with the other flag, stepped side by side
  twinRes,  \* SeqSpec: what the twin's last call returned and logged
  allocs,   \* InitSpec: the number of executions of doInit
  inited,   \* InitSpec: whether some Init call has returned
  scale,    \* ScenSpec: the Scale RunScenario runs
  wg,       \* ScenSpec: the WaitGroup's counter
  i,        \* ScenSpec: RunScenario's loop variable
  j,        \* ScenSpec: per worker, its loop variable
  nGet,     \* ScenSpec: per worker, the Get calls it has issued
  nStore    \* ScenSpec: per worker, the Store calls it has issued

procVars == <<pc, op, id, user, ok, log>>

histVars == <<stored, after, written>>

clientVars == <<calls, expect, started, histVars>>

seqVars == <<ref, twin, twinRes>>

initVars == <<allocs, inited>>

scenVars == <<scale, wg, i, j, nGet, nStore>>

\* What only the callers of the repository change: no step inside Get,
\* Store or storeInCache touches it.
driverVars == <<clientVars, seqVars, initVars, scenVars>>

vars == <<u, procVars, driverVars>>

\* --------------------------------------------------------------- data types
\* A lock nobody holds: locks are the sets of their holders.
Free == {}

Keys == 0..MaxKey

\* The trace lines of the const block.
foundInCache == "found in cache!"

notFoundInCache == "not found in cache"

foundInDB == "found in db!!"

notFoundInDB == "not found in db"

Digits == <<"0", "1", "2", "3", "4", "5", "6", "7", "8", "9">>

\* The %d verb: the decimal digits of a non-negative int.
RECURSIVE Itoa(_)
Itoa(n) == IF n < 10 THEN Digits[n + 1] ELSE Itoa(n \div 10) \o Digits[(n % 10) + 1]

\* fmt.Sprintf("User-%d", n)
Sprintf(n) == "User-" \o Itoa(n)

\* User{Name: name}
User(name) == [Name |-> name]

\* User{}: the zero value, returned with ok = false
ZeroUser == User("")

\* A Go map as a function on the set of its keys; make(map[int]User).
EmptyMap == [k \in {} |-> ZeroUser]

\* v, ok := m[k]
MapGet(m, k) ==
  IF k \in DOMAIN m THEN [user |-> m[k], ok |-> TRUE]
  ELSE [user |-> ZeroUser, ok |-> FALSE]

\* m[k] = v
MapPut(m, k, v) == [x \in DOMAIN m \cup {k} |-> IF x = k THEN v ELSE m[x]]

\* u.cacheSM.Load(id)
SyncMapLoad(m, k) == MapGet(m, k)

\* A faulty u.cacheSM.Store, u.cacheSM.LoadOrStore(id, user): an entry already
\* there is kept. C3 tells it from SyncMapStore.
SyncMapLoadOrStore(m, k, v) == IF k \in DOMAIN m THEN m ELSE MapPut(m, k, v)

\* u.cacheSM.Store(id, user)
SyncMapStore(m, k, v) == MapPut(m, k, v)

Procs == DOMAIN pc

\* The cache the flag selects, for the properties.
Cache == IF u.isCacheSM THEN u.cacheSM ELSE u.cacheRWM

\* No call is in progress.
Quiescent == \A p \in Procs : pc[p] \in {"idle", "ret"}

\* ----------------------------------------------------------- UserRepo.Get
\* Get(k) is called: control enters getFromCache.
Get(p, k) ==
  /\ pc' = [pc EXCEPT ![p] = "gfc"]
  /\ op' = [op EXCEPT ![p] = "Get"]
  /\ id' = [id EXCEPT ![p] = k]
  /\ user' = [user EXCEPT ![p] = ZeroUser]
  /\ ok' = [ok EXCEPT ![p] = FALSE]
  /\ log' = [log EXCEPT ![p] = <<>>]
  /\ UNCHANGED u

\* getFromCache: if u.isCacheSM
getFromCache(p) ==
  /\ pc[p] = "gfc"
  /\ pc' = [pc EXCEPT ![p] = IF u.isCacheSM THEN "gfc_load" ELSE "gfc_rlock"]
  /\ UNCHANGED <<u, op, id, user, ok, log, driverVars>>

\* getFromCache: user, ok := u.cacheSM.Load(id), the trace line, and the
\* return; in Get a hit returns (v, true).
getFromCacheLoad(p) ==
  /\ pc[p] = "gfc_load"
  /\ LET r == SyncMapLoad(u.cacheSM, id[p]) IN
       /\ user' = [user EXCEPT ![p] = r.user]
       /\ ok' = [ok EXCEPT ![p] = r.ok]
       /\ log' = [log EXCEPT ![p] = Append(@, IF r.ok THEN foundInCache ELSE notFoundInCache)]
       /\ pc' = [pc EXCEPT ![p] = IF r.ok THEN "ret" ELSE "get_lock"]
  /\ UNCHANGED <<u, op, id, driverVars>>

\* A faulty getFromCacheRLock that does not wait for the writer. C16 tells
\* it from getFromCacheRLock.
getFromCacheRLockNoWait(p) ==
  /\ pc[p] = "gfc_rlock"
  /\ u' = [u EXCEPT !.rwm.r = @ \cup {p}]
  /\ pc' = [pc EXCEPT ![p] = "gfc_read"]
  /\ UNCHANGED <<op, id, user, ok, log, driverVars>>

\* getFromCache: u.rwm.RLock()
getFromCacheRLock(p) ==
  /\ pc[p] = "gfc_rlock"
  /\ u.rwm.w = Free
  /\ u' = [u EXCEPT !.rwm.r = @ \cup {p}]
  /\ pc' = [pc EXCEPT ![p] = "gfc_read"]
  /\ UNCHANGED <<op, id, user, ok, log, driverVars>>

\* A faulty getFromCacheRead that looks up key 0 whatever the id:
\* user, ok := u.cacheRWM[0]. C13 tells it from getFromCacheRead.
getFromCacheReadKeyZero(p) ==
  /\ pc[p] = "gfc_read"
  /\ LET r == MapGet(u.cacheRWM, 0) IN
       /\ user' = [user EXCEPT ![p] = r.user]
       /\ ok' = [ok EXCEPT ![p] = r.ok]
  /\ pc' = [pc EXCEPT ![p] = "gfc_runlock"]
  /\ UNCHANGED <<u, op, id, log, driverVars>>

\* getFromCache: user, ok := u.cacheRWM[id]
getFromCacheRead(p) ==
  /\ pc[p] = "gfc_read"
  /\ LET r == MapGet(u.cacheRWM, id[p]) IN
       /\ user' = [user EXCEPT ![p] = r.user]
       /\ ok' = [ok EXCEPT ![p] = r.ok]
  /\ pc' = [pc EXCEPT ![p] = "gfc_runlock"]
  /\ UNCHANGED <<u, op, id, log, driverVars>>

\* A faulty getFromCacheRUnlock after which Get goes on to the backing
\* store on a hit too. C14 tells it from getFromCacheRUnlock.
getFromCacheRUnlockFallThrough(p) ==
  /\ pc[p] = "gfc_runlock"
  /\ u' = [u EXCEPT !.rwm.r = @ \ {p}]
  /\ log' = [log EXCEPT ![p] = Append(@, IF ok[p] THEN foundInCache ELSE notFoundInCache)]
  /\ pc' = [pc EXCEPT ![p] = "get_lock"]
  /\ UNCHANGED <<op, id, user, ok, driverVars>>

\* getFromCache: u.rwm.RUnlock(), the trace line, and the return; in Get a
\* hit returns (v, true).
getFromCacheRUnlock(p) ==
  /\ pc[p] = "gfc_runlock"
  /\ u' = [u EXCEPT !.rwm.r = @ \ {p}]
  /\ log' = [log EXCEPT ![p] = Append(@, IF ok[p] THEN foundInCache ELSE notFoundInCache)]
  /\ pc' = [pc EXCEPT ![p] = IF ok[p] THEN "ret" ELSE "get_lock"]
  /\ UNCHANGED <<op, id, user, ok, driverVars>>

\* Get: u.dbMutex.Lock()
GetLock(p) ==
  /\ pc[p] = "get_lock"
  /\ u.dbMutex = Free
  /\ u' = [u EXCEPT !.dbMutex = {p}]
  /\ pc' = [pc EXCEPT ![p] = "get_read"]
  /\ UNCHANGED <<op, id, user, ok, log, driverVars>>

\* A faulty GetRead, user := u.db[id] with the ok of the read dropped: every
\* key counts as found. C5 tells it from GetRead.
GetReadFound(p) ==
  /\ pc[p] = "get_read"
  /\ user' = [user EXCEPT ![p] = MapGet(u.db, id[p]).user]
  /\ ok' = [ok EXCEPT ![p] = TRUE]
  /\ pc' = [pc EXCEPT ![p] = "get_unlock"]
  /\ UNCHANGED <<u, op, id, log, driverVars>>

\* Get: user, ok := u.db[id]
GetRead(p) ==
  /\ pc[p] = "get_read"
  /\ LET r == MapGet(u.db, id[p]) IN
       /\ user' = [user EXCEPT ![p] = r.user]
       /\ ok' = [ok EXCEPT ![p] = r.ok]
  /\ pc' = [pc EXCEPT ![p] = "get_unlock"]
  /\ UNCHANGED <<u, op, id, log, driverVars>>

\* A faulty GetUnlock without the return on a store miss: storeInCache is
\* called with User{} for a key the store does not hold. C12 tells it from
\* GetUnlock.
GetUnlockNoReturn(p) ==
  /\ pc[p] = "get_unlock"
  /\ u' = [u EXCEPT !.dbMutex = Free]
  /\ log' = [log EXCEPT ![p] = IF ok[p] THEN @ ELSE Append(@, notFoundInDB)]
  /\ pc' = [pc EXCEPT ![p] = "sic"]
  /\ UNCHANGED <<op, id, user, ok, driverVars>>

\* A faulty GetUnlock that returns on a store miss with dbMutex still
\* locked. C15 tells it from GetUnlock.
GetUnlockLeak(p) ==
  /\ pc[p] = "get_unlock"
  /\ u' = [u EXCEPT !.dbMutex = IF ok[p] THEN Free ELSE @]
  /\ log' = [log EXCEPT ![p] = IF ok[p] THEN @ ELSE Append(@, notFoundInDB)]
  /\ pc' = [pc EXCEPT ![p] = IF ok[p] THEN "sic" ELSE "ret"]
  /\ UNCHANGED <<op, id, user, ok, driverVars>>

\* Get: u.dbMutex.Unlock(); a store miss logs and returns (User{}, false), a
\* store hit goes on to storeInCache(id, user).
GetUnlock(p) ==
  /\ pc[p] = "get_unlock"
  /\ u' = [u EXCEPT !.dbMutex = Free]
  /\ log' = [log EXCEPT ![p] = IF ok[p] THEN @ ELSE Append(@, notFoundInDB)]
  /\ pc' = [pc EXCEPT ![p] = IF ok[p] THEN "sic" ELSE "ret"]
  /\ UNCHANGED <<op, id, user, ok, driverVars>>

\* --------------------------------------------------------- UserRepo.Store
\* Store(k, v) is called.
Store(p, k, v) ==
  /\ pc' = [pc EXCEPT ![p] = "store_lock"]
  /\ op' = [op EXCEPT ![p] = "Store"]
  /\ id' = [id EXCEPT ![p] = k]
  /\ user' = [user EXCEPT ![p] = v]
  /\ ok' = [ok EXCEPT ![p] = FALSE]
  /\ log' = [log EXCEPT ![p] = <<>>]
  /\ UNCHANGED u

\* Store: u.dbMutex.Lock()
StoreLock(p) ==
  /\ pc[p] = "store_lock"
  /\ u.dbMutex = Free
  /\ u' = [u EXCEPT !.dbMutex = {p}]
  /\ pc' = [pc EXCEPT ![p] = "store_write"]
  /\ UNCHANGED <<op, id, user, ok, log, driverVars>>

\* A faulty StoreWrite that puts the record into a new map:
\* u.db = map[int]User{id: user}. C11 tells it from StoreWrite.
StoreWriteFresh(p) ==
  /\ pc[p] = "store_write"
  /\ u' = [u EXCEPT !.db = MapPut(EmptyMap, id[p], user[p])]
  /\ pc' = [pc EXCEPT ![p] = "store_unlock"]
  /\ UNCHANGED <<op, id, user, ok, log, driverVars>>

\* Store: u.db[id] = user
StoreWrite(p) ==
  /\ pc[p] = "store_write"
  /\ u' = [u EXCEPT !.db = MapPut(@, id[p], user[p])]
  /\ pc' = [pc EXCEPT ![p] = "store_unlock"]
  /\ UNCHANGED <<op, id, user, ok, log, driverVars>>

\* Store: u.dbMutex.Unlock(), then storeInCache(id, user)
StoreUnlock(p) ==
  /\ pc[p] = "store_unlock"
  /\ u' = [u EXCEPT !.dbMutex = Free]
  /\ pc' = [pc EXCEPT ![p] = "sic"]
  /\ UNCHANGED <<op, id, user, ok, log, driverVars>>

\* ------------------------------------------------- UserRepo.storeInCache
\* What the caller does when storeInCache returns: Get logs foundInDB and
\* returns (user, true); Store returns.
AfterStoreInCache(p) ==
  /\ log' = [log EXCEPT ![p] = IF op[p] = "Get" THEN Append(@, foundInDB) ELSE @]
  /\ pc' = [pc EXCEPT ![p] = "ret"]

\* storeInCache: if u.isCacheSM
storeInCache(p) ==
  /\ pc[p] = "sic"
  /\ pc' = [pc EXCEPT ![p] = IF u.isCacheSM THEN "sic_store" ELSE "sic_lock"]
  /\ UNCHANGED <<u, op, id, user, ok, log, driverVars>>

\* A faulty storeInCacheStore that stores under key 0 whatever the id:
\* u.cacheSM.Store(0, user). C17 tells it from storeInCacheStore.
storeInCacheStoreKeyZero(p) ==
  /\ pc[p] = "sic_store"
  /\ u' = [u EXCEPT !.cacheSM = SyncMapStore(@, 0, user[p])]
  /\ AfterStoreInCache(p)
  /\ UNCHANGED <<op, id, user, ok, driverVars>>

\* storeInCache: u.cacheSM.Store(id, user); return
storeInCacheStore(p) ==
  /\ pc[p] = "sic_store"
  /\ u' = [u EXCEPT !.cacheSM = SyncMapStore(@, id[p], user[p])]
  /\ AfterStoreInCache(p)
  /\ UNCHANGED <<op, id, user, ok, driverVars>>

\* storeInCache: u.rwm.Lock()
storeInCacheLock(p) ==
  /\ pc[p] = "sic_lock"
  /\ u.rwm.w = Free
  /\ u.rwm.r = {}
  /\ u' = [u EXCEPT !.rwm.w = {p}]
  /\ pc' = [pc EXCEPT ![p] = "sic_write"]
  /\ UNCHANGED <<op, id, user, ok, log, driverVars>>

\* A faulty storeInCacheWrite that writes only when the key has no entry.
\* C2 tells it from storeInCacheWrite.
storeInCacheWriteIfAbsent(p) ==
  /\ pc[p] = "sic_write"
  /\ u' = [u EXCEPT !.cacheRWM = IF id[p] \in DOMAIN @ THEN @ ELSE MapPut(@, id[p], user[p])]
  /\ pc' = [pc EXCEPT ![p] = "sic_unlock"]
  /\ UNCHANGED <<op, id, user, ok, log, driverVars>>

\* storeInCache: u.cacheRWM[id] = user
storeInCacheWrite(p) ==
  /\ pc[p] = "sic_write"
  /\ u' = [u EXCEPT !.cacheRWM = MapPut(@, id[p], user[p])]
  /\ pc' = [pc EXCEPT ![p] = "sic_unlock"]
  /\ UNCHANGED <<op, id, user, ok, log, driverVars>>

\* A faulty storeInCacheUnlock that returns with rwm still locked. C19
\* tells it from storeInCacheUnlock.
storeInCacheUnlockLeak(p) ==
  /\ pc[p] = "sic_unlock"
  /\ AfterStoreInCache(p)
  /\ UNCHANGED <<u, op, id, user, ok, driverVars>>

\* storeInCache: u.rwm.Unlock(); return
storeInCacheUnlock(p) ==
  /\ pc[p] = "sic_unlock"
  /\ u' = [u EXCEPT !.rwm.w = Free]
  /\ AfterStoreInCache(p)
  /\ UNCHANGED <<op, id, user, ok, driverVars>>

\* One step of a call of Get or Store in progress.
RepoStep ==
  \/ \E p \in Procs : getFromCache(p)
  \/ \E p \in Procs : getFromCacheLoad(p)
  \/ \E p \in Procs : getFromCacheRLock(p)
  \/ \E p \in Procs : getFromCacheRead(p)
  \/ \E p \in Procs : getFromCacheRUnlock(p)
  \/ \E p \in Procs : GetLock(p)
  \/ \E p \in Procs : GetRead(p)
  \/ \E p \in Procs : GetUnlock(p)
  \/ \E p \in Procs : StoreLock(p)
  \/ \E p \in Procs : StoreWrite(p)
  \/ \E p \in Procs : StoreUnlock(p)
  \/ \E p \in Procs : storeInCache(p)
  \/ \E p \in Procs : storeInCacheStore(p)
  \/ \E p \in Procs : storeInCacheLock(p)
  \/ \E p \in Procs : storeInCacheWrite(p)
  \/ \E p \in Procs : storeInCacheUnlock(p)

\* ------------------------------------------------------- initial states
\* The UserRepo as CreateApp(flag) leaves it: Init has run, the maps are
\* allocated and empty, the locks are free.
NewRepo(flag) ==
  [isCacheSM |-> flag, db |-> EmptyMap, cacheSM |-> EmptyMap, cacheRWM |-> EmptyMap,
   dbMutex |-> Free, rwm |-> [w |-> Free, r |-> {}], o |-> [done |-> TRUE, m |-> Free]]

\* The goroutines P, none of them in a call.
ProcInit(P, at) ==
  /\ pc = [p \in P |-> at]
  /\ op = [p \in P |-> "none"]
  /\ id = [p \in P |-> 0]
  /\ user = [p \in P |-> ZeroUser]
  /\ ok = [p \in P |-> FALSE]
  /\ log = [p \in P |-> <<>>]

\* The variables a specification does not use keep these values.
NoClient ==
  /\ calls = 0 /\ expect = <<>> /\ started = {}
  /\ stored = {} /\ after = <<>> /\ written = {}

NoSeq == ref = EmptyMap /\ twin = <<>> /\ twinRes = <<>>

NoInit == allocs = 1 /\ inited = TRUE

NoScen == scale = <<>> /\ wg = 0 /\ i = 0 /\ j = <<>> /\ nGet = <<>> /\ nStore = <<>>

\* ---------------------------------------------- concurrent clients (Spec)
Clients == 1..NumClients

\* p is inside a call of Store for key k.
InStore(p, k) == op[p] = "Store" /\ id[p] = k /\ pc[p] \notin {"idle", "ret"}

\* The keys for which some call of Store has returned.
StoreReturned ==
  stored \cup {id[q] : q \in {r \in Procs : pc[r] = "ret" /\ op[r] = "Store"}}

\* The n-th call of a behaviour, when it is a Store, stores User-n, as the
\* load generator names its records after the operation index: every Store
\* writes a record no other Store writes.
NextUser == User(Sprintf(calls))

\* A client calls Get(k). expect[p] stays only when p's previous call was a
\* Store for k that no other Store for k has overlapped or followed.
ClientGet(p, k) ==
  /\ pc[p] \in {"idle", "ret"}
  /\ calls < MaxCalls
  /\ Get(p, k)
  /\ calls' = calls + 1
  /\ expect' = [expect EXCEPT ![p] = IF op[p] = "Store" /\ id[p] = k THEN @ ELSE ZeroUser]
  /\ stored' = StoreReturned
  /\ after' = [after EXCEPT ![p] = k \in StoreReturned]
  /\ UNCHANGED <<started, written>>

\* A client calls Store(k, NextUser). expect[p] becomes the record, unless
\* another Store for k is in progress; the expectation of every other client
\* about k ends.
ClientStore(p, k) ==
  /\ pc[p] \in {"idle", "ret"}
  /\ calls < MaxCalls
  /\ Store(p, k, NextUser)
  /\ calls' = calls + 1
  /\ started' = started \cup {k}
  /\ stored' = StoreReturned
  /\ written' = written \cup {<<k, NextUser>>}
  /\ after' = [after EXCEPT ![p] = FALSE]
  /\ expect' = [q \in Procs |->
                  IF q = p
                  THEN IF \E r \in Procs \ {p} : InStore(r, k) THEN ZeroUser ELSE NextUser
                  ELSE IF id[q] = k THEN ZeroUser ELSE expect[q]]

Init ==
  /\ \E flag \in BOOLEAN : u = NewRepo(flag)
  /\ ProcInit(Clients, "idle")
  /\ calls = 0
  /\ expect = [p \in Clients |-> ZeroUser]
  /\ started = {}
  /\ stored = {}
  /\ after = [p \in Clients |-> FALSE]
  /\ written = {}
  /\ NoSeq /\ NoInit /\ NoScen

Next ==
  \/ \E p \in Procs, k \in Keys : ClientGet(p, k) /\ UNCHANGED <<seqVars, initVars, scenVars>>
  \/ \E p \in Procs, k \in Keys : ClientStore(p, k) /\ UNCHANGED <<seqVars, initVars, scenVars>>
  \/ RepoStep

Spec == Init /\ [][Next]_vars

\* ------------------------------------------- calls one at a time (SeqSpec)
\* getFromCache run alone on the repository r.
getFromCacheOf(r, k) ==
  IF r.isCacheSM THEN SyncMapLoad(r.cacheSM, k) ELSE MapGet(r.cacheRWM, k)

\* storeInCache run alone on the repository r: the repository it leaves.
storeInCacheOf(r, k, v) ==
  IF r.isCacheSM THEN [r EXCEPT !.cacheSM = SyncMapStore(@, k, v)]
  ELSE [r EXCEPT !.cacheRWM = MapPut(@, k, v)]

\* Get(k) run alone on the repository r: the repository it leaves, what it
\* returns and the trace lines it logs.
GetOf(r, k) ==
  LET c == getFromCacheOf(r, k)
      d == MapGet(r.db, k)
  IN  IF c.ok
      THEN [repo |-> r, user |-> c.user, ok |-> TRUE, log |-> <<foundInCache>>]
      ELSE IF ~d.ok
      THEN [repo |-> r, user |-> ZeroUser, ok |-> FALSE,
            log |-> <<notFoundInCache, notFoundInDB>>]
      ELSE [repo |-> storeInCacheOf(r, k, d.user), user |-> d.user, ok |-> TRUE,
            log |-> <<notFoundInCache, foundInDB>>]

\* Store(k, v) run alone on the repository r.
StoreOf(r, k, v) ==
  [repo |-> storeInCacheOf([r EXCEPT !.db = MapPut(@, k, v)], k, v),
   user |-> v, ok |-> FALSE, log |-> <<>>]

\* What a call on the twin gave, and the client that made the call.
TwinResult(p, res) == [by |-> p, user |-> res.user, ok |-> res.ok, log |-> res.log]

\* With no call in progress, a client calls Get(k) on u, and the same call
\* is made on the twin.
SeqGet(p, k) ==
  /\ Quiescent
  /\ calls < MaxCalls
  /\ Get(p, k)
  /\ calls' = calls + 1
  /\ twin' = GetOf(twin, k).repo
  /\ twinRes' = TwinResult(p, GetOf(twin, k))
  /\ UNCHANGED <<ref, expect, started, histVars, initVars, scenVars>>

\* With no call in progress, a client calls Store(k, NextUser) on u; the
\* same call is made on the twin and the reference map takes the record.
SeqStore(p, k) ==
  /\ Quiescent
  /\ calls < MaxCalls
  /\ Store(p, k, NextUser)
  /\ calls' = calls + 1
  /\ ref' = MapPut(ref, k, NextUser)
  /\ twin' = StoreOf(twin, k, NextUser).repo
  /\ twinRes' = TwinResult(p, StoreOf(twin, k, NextUser))
  /\ UNCHANGED <<expect, started, histVars, initVars, scenVars>>

SeqInit ==
  /\ \E flag \in BOOLEAN : u = NewRepo(flag) /\ twin = NewRepo(~flag)
  /\ ProcInit(Clients, "idle")
  /\ ref = EmptyMap
  /\ twinRes = [by |-> 0, user |-> ZeroUser, ok |-> FALSE, log |-> <<>>]
  /\ NoClient /\ NoInit /\ NoScen

SeqNext ==
  \/ \E p \in Procs, k \in Keys : SeqGet(p, k)
  \/ \E p \in Procs, k \in Keys : SeqStore(p, k)
  \/ RepoStep

SeqSpec == SeqInit /\ [][SeqNext]_vars

\* ------------------------------------------- UserRepo.Init (InitSpec)
\* Init(flag) is called: u.isCacheSM = isCacheSM and u.logger = logger, then
\* control enters u.o.Do(u.doInit).
UserRepoInit(p, flag) ==
  /\ u' = [u EXCEPT !.isCacheSM = flag]
  /\ pc' = [pc EXCEPT ![p] = "once_do"]
  /\ op' = [op EXCEPT ![p] = "Init"]
  /\ log' = [log EXCEPT ![p] = <<>>]
  /\ UNCHANGED <<id, user, ok>>

\* sync.Once.Do: a Once that is done returns at once, and Init returns;
\* otherwise the slow path is taken.
OnceDo(p) ==
  /\ pc[p] = "once_do"
  /\ pc' = [pc EXCEPT ![p] = IF u.o.done THEN "ret" ELSE "once_lock"]
  /\ inited' = (inited \/ u.o.done)
  /\ UNCHANGED <<u, op, id, user, ok, log, allocs, clientVars, seqVars, scenVars>>

\* sync.Once.doSlow: o.m.Lock()
OnceLock(p) ==
  /\ pc[p] = "once_lock"
  /\ u.o.m = Free
  /\ u' = [u EXCEPT !.o.m = {p}]
  /\ pc' = [pc EXCEPT ![p] = "once_check"]
  /\ UNCHANGED <<op, id, user, ok, log, driverVars>>

\* A faulty OnceCheck that does not look at done again under the lock.
\* C9 tells it from OnceCheck.
OnceCheckNoRecheck(p) ==
  /\ pc[p] = "once_check"
  /\ pc' = [pc EXCEPT ![p] = "doinit"]
  /\ UNCHANGED <<u, op, id, user, ok, log, driverVars>>

\* sync.Once.doSlow: under the lock, f is called only if the Once is still
\* not done.
OnceCheck(p) ==
  /\ pc[p] = "once_check"
  /\ pc' = [pc EXCEPT ![p] = IF u.o.done THEN "once_unlock" ELSE "doinit"]
  /\ UNCHANGED <<u, op, id, user, ok, log, driverVars>>

\* doInit: u.db = make(map[int]User)
doInit(p) ==
  /\ pc[p] = "doinit"
  /\ u' = [u EXCEPT !.db = EmptyMap]
  /\ allocs' = allocs + 1
  /\ pc' = [pc EXCEPT ![p] = "doinit_cache"]
  /\ UNCHANGED <<op, id, user, ok, log, inited, clientVars, seqVars, scenVars>>

\* doInit: u.cacheRWM = make(map[int]User)
doInitCache(p) ==
  /\ pc[p] = "doinit_cache"
  /\ u' = [u EXCEPT !.cacheRWM = EmptyMap]
  /\ pc' = [pc EXCEPT ![p] = "once_done"]
  /\ UNCHANGED <<op, id, user, ok, log, driverVars>>

\* sync.Once.doSlow: f has returned, the Once is marked done
OnceDone(p) ==
  /\ pc[p] = "once_done"
  /\ u' = [u EXCEPT !.o.done = TRUE]
  /\ pc' = [pc EXCEPT ![p] = "once_unlock"]
  /\ UNCHANGED <<op, id, user, ok, log, driverVars>>

\* sync.Once.doSlow: o.m.Unlock(); Do returns, and Init returns.
OnceUnlock(p) ==
  /\ pc[p] = "once_unlock"
  /\ u' = [u EXCEPT !.o.m = Free]
  /\ pc' = [pc EXCEPT ![p] = "ret"]
  /\ inited' = TRUE
  /\ UNCHANGED <<op, id, user, ok, log, allocs, clientVars, seqVars, scenVars>>

\* One step of a call of Init in progress.
InitStep ==
  \/ \E p \in Procs : OnceDo(p)
  \/ \E p \in Procs : OnceLock(p)
  \/ \E p \in Procs : OnceCheck(p)
  \/ \E p \in Procs : doInit(p)
  \/ \E p \in Procs : doInitCache(p)
  \/ \E p \in Procs : OnceDone(p)
  \/ \E p \in Procs : OnceUnlock(p)

\* The zero UserRepo, before any Init: the flag false, the Once not done, the
\* maps nil. A nil map reads as an empty one, and nothing is written to db or
\* cacheRWM before an Init has returned (InitGet, InitStore).
ZeroRepo ==
  [isCacheSM |-> FALSE, db |-> EmptyMap, cacheSM |-> EmptyMap, cacheRWM |-> EmptyMap,
   dbMutex |-> Free, rwm |-> [w |-> Free, r |-> {}], o |-> [done |-> FALSE, m |-> Free]]

\* A client calls Init(flag), at any time and any number of times.
InitCall(p, flag) ==
  /\ pc[p] \in {"idle", "ret"}
  /\ calls < MaxInitCalls
  /\ UserRepoInit(p, flag)
  /\ calls' = calls + 1
  /\ UNCHANGED <<expect, started, histVars, seqVars, initVars, scenVars>>

\* A client calls Get(k) on a repository some Init call has returned from.
InitGet(p, k) ==
  /\ inited
  /\ pc[p] \in {"idle", "ret"}
  /\ calls < MaxInitCalls
  /\ Get(p, k)
  /\ calls' = calls + 1
  /\ UNCHANGED <<expect, started, histVars, seqVars, initVars, scenVars>>

\* A client calls Store(k, NextUser) on such a repository.
InitStore(p, k) ==
  /\ inited
  /\ pc[p] \in {"idle", "ret"}
  /\ calls < MaxInitCalls
  /\ Store(p, k, NextUser)
  /\ calls' = calls + 1
  /\ UNCHANGED <<expect, started, histVars, seqVars, initVars, scenVars>>

InitInit ==
  /\ u = ZeroRepo
  /\ ProcInit(Clients, "idle")
  /\ allocs = 0
  /\ inited = FALSE
  /\ NoClient /\ NoSeq /\ NoScen

InitNext ==
  \/ \E p \in Procs, flag \in BOOLEAN : InitCall(p, flag)
  \/ \E p \in Procs, k \in Keys : InitGet(p, k)
  \/ \E p \in Procs, k \in Keys : InitStore(p, k)
  \/ InitStep
  \/ RepoStep

InitSpec == InitInit /\ [][InitNext]_vars

\* ------------------------------------------------ RunScenario (ScenSpec)
\* The read ratios main passes to BenchmarkScenario (0.1, 0.5, 0.9), and the
\* two ends of the range, each as <<numerator, denominator>>.
Ratios == {<<0, 1>>, <<1, 10>>, <<1, 2>>, <<9, 10>>, <<1, 1>>}

\* The Scale values RunScenario is run with.
Scale ==
  [totalOps : 0..MaxTotalOps, concurrency : 1..MaxConcurrency, readRatio : Ratios]

\* The goroutines RunScenario starts, named by the id each is passed.
Workers == 0..(scale.concurrency - 1)

\* The goroutine that calls RunScenario.
Main == scale.concurrency

\* scale.totalOps/scale.concurrency, the bound of a worker's loop
Quota == scale.totalOps \div scale.concurrency

\* A faulty IsRead, ratio <= scale.readRatio. C7 tells it from IsRead.
IsReadOrEqual(jj) == jj * scale.readRatio[2] <= scale.readRatio[1] * Quota

\* ratio < scale.readRatio, where ratio = float64(jj)/float64(Quota):
\* jj/Quota < num/den, compared exactly.
IsRead(jj) == jj * scale.readRatio[2] < scale.readRatio[1] * Quota

\* A faulty WgAdd, wg.Add(scale.concurrency - 1). C6 tells it from WgAdd.
WgAddShort ==
  /\ pc[Main] = "rs_add"
  /\ wg' = wg + scale.concurrency - 1
  /\ pc' = [pc EXCEPT ![Main] = "rs_loop"]
  /\ UNCHANGED <<u, op, id, user, ok, log, scale, i, j, nGet, nStore,
                 clientVars, seqVars, initVars>>

\* wg.Add(scale.concurrency)
WgAdd ==
  /\ pc[Main] = "rs_add"
  /\ wg' = wg + scale.concurrency
  /\ pc' = [pc EXCEPT ![Main] = "rs_loop"]
  /\ UNCHANGED <<u, op, id, user, ok, log, scale, i, j, nGet, nStore,
                 clientVars, seqVars, initVars>>

\* for i := 0; i < scale.concurrency; i++ { go func(id int) {...}(i) }
Spawn ==
  /\ pc[Main] = "rs_loop"
  /\ IF i < scale.concurrency
       THEN /\ pc' = [pc EXCEPT ![i] = "loop"]
            /\ i' = i + 1
       ELSE /\ pc' = [pc EXCEPT ![Main] = "rs_wait"]
            /\ i' = i
  /\ UNCHANGED <<u, op, id, user, ok, log, scale, wg, j, nGet, nStore,
                 clientVars, seqVars, initVars>>

\* A faulty WgWait that does not block. C8 tells it from WgWait.
WgWaitNoBlock ==
  /\ pc[Main] = "rs_wait"
  /\ pc' = [pc EXCEPT ![Main] = "returned"]
  /\ UNCHANGED <<u, op, id, user, ok, log, scenVars, clientVars, seqVars, initVars>>

\* wg.Wait() returns when the counter is zero, and RunScenario returns.
WgWait ==
  /\ pc[Main] = "rs_wait"
  /\ wg = 0
  /\ pc' = [pc EXCEPT ![Main] = "returned"]
  /\ UNCHANGED <<u, op, id, user, ok, log, scenVars, clientVars, seqVars, initVars>>

\* A faulty WorkerGet that reads key 0 whatever the worker:
\* app.UserS.Get(0). C20 tells it from WorkerGet.
WorkerGetKeyZero(p) ==
  /\ pc[p] = "loop"
  /\ j[p] < Quota
  /\ IsRead(j[p])
  /\ Get(p, 0)
  /\ nGet' = [nGet EXCEPT ![p] = @ + 1]
  /\ UNCHANGED <<scale, wg, i, j, nStore, clientVars, seqVars, initVars>>

\* Worker p, in its loop with ratio < scale.readRatio: app.UserS.Get(id)
WorkerGet(p) ==
  /\ pc[p] = "loop"
  /\ j[p] < Quota
  /\ IsRead(j[p])
  /\ Get(p, p)
  /\ nGet' = [nGet EXCEPT ![p] = @ + 1]
  /\ UNCHANGED <<scale, wg, i, j, nStore, clientVars, seqVars, initVars>>

\* A faulty WorkerStore that names the record after the number of Stores
\* the worker has issued before. C18 tells it from WorkerStore.
WorkerStoreOrdinal(p) ==
  /\ pc[p] = "loop"
  /\ j[p] < Quota
  /\ ~IsRead(j[p])
  /\ Store(p, p, User(Sprintf(nStore[p])))
  /\ nStore' = [nStore EXCEPT ![p] = @ + 1]
  /\ UNCHANGED <<scale, wg, i, j, nGet, clientVars, seqVars, initVars>>

\* Worker p, else: app.UserS.Store(id, User{Name: fmt.Sprintf("User-%d", j)})
WorkerStore(p) ==
  /\ pc[p] = "loop"
  /\ j[p] < Quota
  /\ ~IsRead(j[p])
  /\ Store(p, p, User(Sprintf(j[p])))
  /\ nStore' = [nStore EXCEPT ![p] = @ + 1]
  /\ UNCHANGED <<scale, wg, i, j, nGet, clientVars, seqVars, initVars>>

\* Worker p's call has returned: j++
WorkerNext(p) ==
  /\ p \in Workers
  /\ pc[p] = "ret"
  /\ j' = [j EXCEPT ![p] = @ + 1]
  /\ pc' = [pc EXCEPT ![p] = "loop"]
  /\ UNCHANGED <<u, op, id, user, ok, log, scale, wg, i, nGet, nStore,
                 clientVars, seqVars, initVars>>

\* Worker p's loop is over, the goroutine returns: the deferred wg.Done()
WgDone(p) ==
  /\ pc[p] = "loop"
  /\ ~(j[p] < Quota)
  /\ wg' = wg - 1
  /\ pc' = [pc EXCEPT ![p] = "exit"]
  /\ UNCHANGED <<u, op, id, user, ok, log, scale, i, j, nGet, nStore,
                 clientVars, seqVars, initVars>>

\* After RunScenario has returned, its caller reads key k with Get.
FinalGet(k) ==
  /\ pc[Main] = "returned"
  /\ Get(Main, k)
  /\ UNCHANGED driverVars

\* CreateApp(isCacheSM) has built a fresh App, its UserRepo initialised, and
\* RunScenario(app, scale) is called.
ScenInit ==
  /\ scale \in Scale
  /\ \E flag \in BOOLEAN : u = NewRepo(flag)
  /\ pc = [p \in Workers \cup {Main} |-> IF p = Main THEN "rs_add" ELSE "unspawned"]
  /\ op = [p \in Workers \cup {Main} |-> "none"]
  /\ id = [p \in Workers \cup {Main} |-> 0]
  /\ user = [p \in Workers \cup {Main} |-> ZeroUser]
  /\ ok = [p \in Workers \cup {Main} |-> FALSE]
  /\ log = [p \in Workers \cup {Main} |-> <<>>]
  /\ wg = 0
  /\ i = 0
  /\ j = [p \in Workers |-> 0]
  /\ nGet = [p \in Workers |-> 0]
  /\ nStore = [p \in Workers |-> 0]
  /\ NoClient /\ NoSeq /\ NoInit

ScenNext ==
  \/ WgAdd
  \/ Spawn
  \/ WgWait
  \/ \E p \in Workers : WorkerGet(p)
  \/ \E p \in Workers : WorkerStore(p)
  \/ \E p \in Workers : WorkerNext(p)
  \/ \E p \in Workers : WgDone(p)
  \/ \E k \in Workers : FinalGet(k)
  \/ RepoStep

ScenSpec == ScenInit /\ [][ScenNext]_vars

\* RunScenario under a scheduler that runs some goroutine whenever one can
\* take a step.
ScenFairSpec == ScenSpec /\ WF_vars(ScenNext)

\* --------------------------------------------------------------- claims
\* p has returned from a call of Get.
GetReturned(p) == pc[p] = "ret" /\ op[p] = "Get"

\* p has returned from the latest call of a behaviour of SeqSpec.
LatestReturned(p) == pc[p] = "ret" /\ twinRes.by = p

\* C2: with the calls made one at a time on a fresh repository, whatever the
\* flag, every Get(K) returns what the reference map holds: the record of
\* the latest Store(K, .) with true, or (User{}, false) when there was none.
C2_SequentialReference ==
  \A p \in Procs :
    GetReturned(p) /\ LatestReturned(p) =>
      [user |-> user[p], ok |-> ok[p]] = MapGet(ref, id[p])

\* C2's case: a Get has returned the record of a key that was stored twice.
C2_Witness ==
  \E p \in Procs :
    /\ GetReturned(p) /\ LatestReturned(p)
    /\ ok[p] /\ user[p] = User(Sprintf(1)) /\ calls = 3

\* C3: with the calls made one at a time, a repository and its twin built
\* with the other flag return the same record and found flag at every Get,
\* and log the same trace lines (cache hit, store hit or not found) at
\* every call.
C3_StrategyEquivalence ==
  \A p \in Procs :
    LatestReturned(p) =>
      /\ log[p] = twinRes.log
      /\ op[p] = "Get" => user[p] = twinRes.user /\ ok[p] = twinRes.ok

\* C3's case: both repositories have answered a Get from their caches, the
\* one from cacheSM and the other from cacheRWM.
C3_Witness ==
  \E p \in Procs :
    /\ GetReturned(p) /\ LatestReturned(p)
    /\ ok[p] /\ twinRes.ok /\ log[p] = <<foundInCache>>
    /\ u.isCacheSM /\ ~twin.isCacheSM

\* C1: a Get(K) that follows the caller's own Store(K, R), with no other
\* Store(K, .) executing between the start of that Store and the return of
\* the Get, returns (R, true), whatever Get calls of other goroutines overlap.
C1_ReadYourWrite ==
  \A p \in Procs :
    GetReturned(p) /\ expect[p] # ZeroUser => ok[p] /\ user[p] = expect[p]

\* C4: whenever no call is in progress, every key of the cache holds the
\* record the backing store holds for it.
C4_QuiescentCacheEqualsStore ==
  Quiescent => \A k \in DOMAIN Cache : k \in DOMAIN u.db /\ Cache[k] = u.db[k]

\* C5: a Get(K) that returns before any Store(K, .) has started returns
\* (User{}, false) by the normal return path, having logged the two misses,
\* and K is then in neither the backing store nor the cache.
C5_MissBeforeAnyStore ==
  \A p \in Procs :
    GetReturned(p) /\ id[p] \notin started =>
      /\ ~ok[p]
      /\ user[p] = ZeroUser
      /\ log[p] = <<notFoundInCache, notFoundInDB>>
      /\ id[p] \notin DOMAIN u.db
      /\ id[p] \notin DOMAIN u.cacheSM
      /\ id[p] \notin DOMAIN u.cacheRWM

\* C5's case: a Get has returned for a key no Store has started for, while
\* a Store for another key has started.
C5_Witness ==
  \E p \in Procs : GetReturned(p) /\ id[p] \notin started /\ started # {}

\* Some call of doInit is between its first and its last statement.
Allocating == \E p \in Procs : pc[p] \in {"doinit", "doinit_cache", "once_done"}

\* Every entry of the maps is still there after the step.
EntriesKept ==
  /\ DOMAIN u.db \subseteq DOMAIN u'.db
  /\ DOMAIN u.cacheSM \subseteq DOMAIN u'.cacheSM
  /\ DOMAIN u.cacheRWM \subseteq DOMAIN u'.cacheRWM

\* C9: whatever the Init calls, concurrent or repeated, doInit runs exactly
\* once; an Init call returns only when that run has completed; and no step,
\* a later Init's included, removes an entry from the maps.
C9_InitOnce ==
  /\ [](allocs <= 1)
  /\ [](\A p \in Procs :
          pc[p] = "ret" /\ op[p] = "Init" => allocs = 1 /\ u.o.done /\ ~Allocating)
  /\ [][EntriesKept]_vars

\* C9's case: an Init call has returned while the backing store and a cache
\* hold an entry, so the call came after a Store.
C9_Witness ==
  \E p \in Procs :
    /\ pc[p] = "ret" /\ op[p] = "Init"
    /\ DOMAIN u.db # {}
    /\ DOMAIN u.cacheSM \cup DOMAIN u.cacheRWM # {}

\* C10: once an Init call has returned, no step changes the flag isCacheSM.
C10_FlagFixed == [][inited => u'.isCacheSM = u.isCacheSM]_vars

\* RunScenario has returned to its caller.
Returned == pc[Main] \notin {"rs_add", "rs_loop", "rs_wait"}

\* The number of Get and Store calls the workers 0..n-1 have issued.
RECURSIVE Issued(_)
Issued(n) == IF n = 0 THEN 0 ELSE nGet[n - 1] + nStore[n - 1] + Issued(n - 1)

\* C6: when RunScenario has returned, every worker has issued exactly Quota
\* calls, is in none of them and has none left, and has called wg.Done; the
\* calls issued are concurrency * Quota in all.
C6_JoinComplete ==
  Returned =>
    /\ \A w \in Workers :
         /\ pc[w] = "exit"
         /\ j[w] = Quota
         /\ nGet[w] + nStore[w] = Quota
    /\ wg = 0
    /\ Issued(scale.concurrency) = scale.concurrency * Quota

\* C6's case: RunScenario has returned from a run of several workers, each
\* with several calls.
C6_Witness == Returned /\ scale.concurrency >= 2 /\ Quota >= 2

\* F * Quota rounded down and rounded up, F = scale.readRatio
FloorReads == (scale.readRatio[1] * Quota) \div scale.readRatio[2]
CeilReads == (scale.readRatio[1] * Quota + scale.readRatio[2] - 1) \div scale.readRatio[2]

\* C7, as stated: a worker that has finished a quota Q > 0 has issued
\* floor(F*Q) Get calls and Q - floor(F*Q) Store calls.
C7_FloorReads ==
  \A w \in Workers :
    pc[w] = "exit" /\ Quota > 0 =>
      nGet[w] = FloorReads /\ nStore[w] = Quota - FloorReads

\* C7, amended: a worker that has finished a quota Q > 0 has issued
\* ceil(F*Q) Get calls, the number of j in 0..Q-1 with j/Q < F, and
\* Q - ceil(F*Q) Store calls.
C7_CeilReads ==
  \A w \in Workers :
    pc[w] = "exit" /\ Quota > 0 =>
      nGet[w] = CeilReads /\ nStore[w] = Quota - CeilReads

\* C7's case: a worker has finished a quota for which F*Q is not an integer,
\* with calls of both kinds.
C7_Witness ==
  \E w \in Workers :
    /\ pc[w] = "exit"
    /\ FloorReads # CeilReads
    /\ nGet[w] > 0 /\ nStore[w] > 0

\* C8: a Get(i) that follows RunScenario, for a worker i that has called
\* Store, returns the record of the worker's last Store, User-<Quota-1>.
C8_FinalGetSeesLastWrite ==
  pc[Main] = "ret" /\ op[Main] = "Get" /\ nStore[id[Main]] > 0 =>
    ok[Main] /\ user[Main] = User(Sprintf(Quota - 1))

\* C8's case: the final Get has returned for a worker that did one Get and
\* then one Store, beside at least one other worker.
C8_Witness ==
  /\ pc[Main] = "ret" /\ op[Main] = "Get"
  /\ scale.concurrency >= 2
  /\ nGet[id[Main]] = 1 /\ nStore[id[Main]] = 1
  /\ ok[Main] /\ user[Main] = User("User-1")

\* C11: a Get(K) that starts after some Store(K, .) has returned returns
\* found = true, and no step removes a key from the backing store or from a
\* cache.
C11_EntriesNeverDestroyed ==
  /\ [](\A p \in Procs : GetReturned(p) /\ after[p] => ok[p])
  /\ [][EntriesKept]_vars

\* C11's case: a Get that started after a Store for its key had returned has
\* itself returned, while another Store for the key is in progress.
C11_Witness ==
  \E p \in Procs :
    /\ GetReturned(p) /\ after[p] /\ ok[p]
    /\ \E q \in Procs \ {p} : InStore(q, id[p])

\* C12: every key of a cache is a key of the backing store, and when a
\* Store(K, .) has returned K is in the backing store and in the cache.
C12_WriteThroughOrder ==
  /\ DOMAIN u.cacheSM \subseteq DOMAIN u.db
  /\ DOMAIN u.cacheRWM \subseteq DOMAIN u.db
  /\ \A p \in Procs :
       pc[p] = "ret" /\ op[p] = "Store" => id[p] \in DOMAIN u.db \cap DOMAIN Cache

\* C12's case: a Store has returned while another Store has written a new
\* key to the backing store and not yet to the cache.
C12_Witness ==
  /\ \E p \in Procs : pc[p] = "ret" /\ op[p] = "Store"
  /\ DOMAIN u.db # DOMAIN Cache

\* C13: a Get(K) that has returned found = true returns a record that a
\* Store(K, .) started before the return was given; it returns not found,
\* with User{}, only if no Store(K, .) had returned when it started. So with
\* A in the store and the cache and one Store(K, B) beside it, a Get(K)
\* returns (A, true) or (B, true).
C13_OldOrNew ==
  \A p \in Procs :
    GetReturned(p) =>
      IF ok[p] THEN <<id[p], user[p]>> \in written
      ELSE user[p] = ZeroUser /\ ~after[p]

\* C13's case: Store(K, A) has returned, exactly one more Store(K, B) has
\* started, and a Get(K) that started after the first has returned A while B
\* is already in the backing store.
C13_Witness ==
  \E p \in Procs :
    /\ GetReturned(p) /\ after[p]
    /\ Cardinality({w \in written : w[1] = id[p]}) = 2
    /\ calls = 3
    /\ u.db[id[p]] # user[p]
    /\ \E q \in Procs \ {p} : InStore(q, id[p])

\* The step is a step of p's call of Get.
GetStep(p) == op[p] = "Get" /\ pc[p] \notin {"idle", "ret"} /\ pc'[p] # pc[p]

\* The step is the one of p's Get that ends a cache lookup that hit.
HitStep(p) ==
  /\ GetStep(p)
  /\ \/ pc[p] = "gfc_load" /\ id[p] \in DOMAIN u.cacheSM
     \/ pc[p] = "gfc_runlock" /\ ok[p]

\* C14: the step of a Get that ends a cache lookup with a hit returns the
\* cached record with found = true and leaves the backing store, its lock
\* and both caches as they are; only a Get whose lookup missed is ever at
\* the backing store or holds dbMutex; and no step of a Get changes the
\* backing store.
C14_HitReturnsAtOnce ==
  /\ [][\A p \in Procs :
         HitStep(p) =>
           /\ pc'[p] = "ret" /\ ok'[p]
           /\ user'[p] = (IF pc[p] = "gfc_load" THEN u.cacheSM[id[p]] ELSE user[p])
           /\ log'[p] = <<foundInCache>>
           /\ u'.db = u.db /\ u'.dbMutex = u.dbMutex
           /\ u'.cacheSM = u.cacheSM /\ u'.cacheRWM = u.cacheRWM]_vars
  /\ [](\A p \in Procs :
         op[p] = "Get" /\ (p \in u.dbMutex \/ pc[p] \in {"get_lock", "get_read", "get_unlock"})
           => log[p] = <<notFoundInCache>>)
  /\ [][\A p \in Procs : GetStep(p) => u'.db = u.db]_vars

\* C14's case: a Get has returned from a hit in the mutex-guarded cache
\* while another goroutine holds dbMutex.
C14_Witness ==
  \E p \in Procs :
    /\ GetReturned(p) /\ log[p] = <<foundInCache>> /\ ~u.isCacheSM
    /\ u.dbMutex # Free

\* The locks of rwm that p holds, shared or exclusive.
HoldsRWM(p) == p \in u.rwm.r \cup u.rwm.w

\* C15: a goroutine that is in no call holds neither dbMutex nor rwm,
\* whichever way its call returned; no goroutine holds dbMutex and rwm
\* together; and with no call in progress both locks are free.
C15_LockDiscipline ==
  /\ \A p \in Procs : pc[p] \in {"idle", "ret"} => p \notin u.dbMutex /\ ~HoldsRWM(p)
  /\ \A p \in Procs : ~(p \in u.dbMutex /\ HoldsRWM(p))
  /\ Quiescent => u.dbMutex = Free /\ u.rwm.w = Free /\ u.rwm.r = {}

\* C15's case: with the mutex-guarded cache, no call is in progress after a
\* Get that missed the cache and the store, a Get that hit the cache and a
\* Store.
C15_Witness ==
  /\ Quiescent /\ ~u.isCacheSM
  /\ \E p, q \in Procs :
       /\ GetReturned(p) /\ log[p] = <<notFoundInCache, notFoundInDB>>
       /\ GetReturned(q) /\ log[q] = <<foundInCache>>
  /\ written # {}

\* The goroutines at an access of db, of cacheRWM for reading, and of
\* cacheRWM for writing.
AtDB == {p \in Procs : pc[p] \in {"get_read", "store_write"}}
AtCacheRead == {p \in Procs : pc[p] = "gfc_read"}
AtCacheWrite == {p \in Procs : pc[p] = "sic_write"}

\* C16: at most one goroutine is at an access of db, and it holds dbMutex;
\* a goroutine at a write of cacheRWM holds rwm exclusively and no other
\* goroutine is at a read or a write of cacheRWM; a goroutine at a read of
\* cacheRWM holds rwm shared.
C16_MutualExclusion ==
  /\ Cardinality(AtDB) <= 1
  /\ \A p \in AtDB : u.dbMutex = {p}
  /\ \A p \in AtCacheWrite :
       /\ u.rwm.w = {p} /\ u.rwm.r = {}
       /\ AtCacheWrite = {p} /\ AtCacheRead = {}
  /\ \A p \in AtCacheRead : p \in u.rwm.r /\ u.rwm.w = Free
  /\ AtCacheRead \cup AtCacheWrite # {} => ~u.isCacheSM

\* C16's case: two goroutines read cacheRWM at the same time.
C16_Witness == Cardinality(AtCacheRead) = 2

\* The step changes what db, cacheSM or cacheRWM holds for key k.
EntryChanged(k) ==
  \/ MapGet(u'.db, k) # MapGet(u.db, k)
  \/ MapGet(u'.cacheSM, k) # MapGet(u.cacheSM, k)
  \/ MapGet(u'.cacheRWM, k) # MapGet(u.cacheRWM, k)

\* C17: a step changes the store entry or a cache entry of a key only if it
\* is a step of a Get or a Store for that key; the entries of every other
\* key stay as they are.
C17_KeyIndependence ==
  [][\A k \in Keys :
       EntryChanged(k) =>
         \E p \in Procs : pc'[p] # pc[p] /\ id[p] = k /\ op[p] \in {"Get", "Store"}]_vars

\* C17's case: two goroutines have each returned from a Store for a key of
\* their own, and each key holds its own record in the backing store and in
\* the cache.
C17_Witness ==
  /\ \A p \in Procs : pc[p] = "ret" /\ op[p] = "Store" /\ Cache[id[p]] = user[p]
  /\ calls = 2
  /\ DOMAIN u.db = Keys /\ DOMAIN Cache = Keys
  /\ \A k \in Keys : u.db[k] = Cache[k]
  /\ \E k1, k2 \in Keys : u.db[k1] # u.db[k2]

\* The workers RunScenario has started.
Spawned == {w \in Workers : pc[w] # "unspawned"}

\* What C18 says of the spawning, the keys and the order: the workers
\* started are i in number and concurrency once the loop is over; worker w
\* calls with key w only; and a worker whose latest call is a Get has issued
\* no Store.
C18_Shape ==
  /\ Cardinality(Spawned) = i /\ i <= scale.concurrency
  /\ pc[Main] \notin {"rs_add", "rs_loop"} => Spawned = Workers /\ i = scale.concurrency
  /\ \A w \in Workers : op[w] # "none" => id[w] = w
  /\ \A w \in Workers : op[w] = "Get" => nStore[w] = 0

\* C18, as stated: with that, the j-th Store of a worker, counted from 0
\* among its Stores, carries the record User-<j>.
C18_StoreOrdinalNames ==
  /\ C18_Shape
  /\ \A w \in Workers : op[w] = "Store" => user[w] = User(Sprintf(nStore[w] - 1))

\* C18, amended: with that, the Store a worker issues as its j-th operation,
\* counted from 0 among its Gets and Stores, carries the record User-<j>.
C18_StoreIndexNames ==
  /\ C18_Shape
  /\ \A w \in Workers :
       op[w] = "Store" =>
         /\ user[w] = User(Sprintf(nGet[w] + nStore[w] - 1))
         /\ pc[w] \notin {"loop", "exit"} => user[w] = User(Sprintf(j[w]))

\* C18's case: beside another worker, a worker has issued one Get and then
\* two Stores, the second with User-2.
C18_Witness ==
  /\ scale.concurrency = 2
  /\ \E w \in Workers :
       /\ op[w] = "Store" /\ nGet[w] = 1 /\ nStore[w] = 2
       /\ user[w] = User("User-2")

\* C19: under fair scheduling every run of RunScenario, whatever the scale
\* and the flag, reaches the return of RunScenario with every worker at the
\* end of its goroutine, its quota done.
C19_RunScenarioReturns ==
  <>(Returned /\ \A w \in Workers : pc[w] = "exit" /\ j[w] = Quota)

\* C19's case: RunScenario has returned from a run with the mutex-guarded
\* cache in which every one of MaxConcurrency workers has stored its key,
\* so the workers have contended for dbMutex and rwm.
C19_Witness ==
  /\ pc[Main] = "returned"
  /\ ~u.isCacheSM
  /\ scale.concurrency = MaxConcurrency
  /\ DOMAIN u.cacheRWM = Workers /\ DOMAIN u.db = Workers

\* The places of storeInCache.
InStoreInCache == {"sic", "sic_store", "sic_lock", "sic_write", "sic_unlock"}

\* C20: in a run of RunScenario on a fresh App a worker's Get never finds
\* its key, in the cache or in the backing store: it returns (User{}, false)
\* after the two misses, and never reaches storeInCache, so that only Store
\* puts entries into the cache.
C20_WorkerGetsMiss ==
  \A w \in Workers :
    op[w] = "Get" =>
      /\ ~ok[w] /\ user[w] = ZeroUser
      /\ pc[w] \notin InStoreInCache
      /\ pc[w] \in {"ret", "loop", "exit"} => log[w] = <<notFoundInCache, notFoundInDB>>
      /\ w \notin DOMAIN u.db /\ w \notin DOMAIN u.cacheSM /\ w \notin DOMAIN u.cacheRWM

\* C20's case: a worker's second Get has returned not found while the
\* backing store and the cache hold the record of another worker.
C20_Witness ==
  \E w \in Workers :
    /\ GetReturned(w) /\ ~ok[w] /\ nGet[w] = 2
    /\ DOMAIN u.db # {} /\ DOMAIN Cache # {}

====
